---- MODULE Spec2Model ----
(***************************************************************************)
(* Purchase-order lifecycle and inventory-adjustment engine.               *)
(*                                                                         *)
(* The route handlers of the purchase-order, inventory-transfer and        *)
(* waste-log endpoints are modelled as request processes.  Every awaited   *)
(* database call of a handler is one atomic step; the code between two     *)
(* awaits belongs to the step of the following call.  No handler opens a   *)
(* database transaction, so the writes of a handler that later throws stay *)
(* in the database.                                                        *)
(*                                                                         *)
(* Quantities are integers (multiples of the smallest unit of measure).    *)
(* Free-text columns (notes, unit, createdBy of a transaction) and the     *)
(* relations that are only read back for the response are not part of the  *)
(* state.  A timestamp is the value of clock when it is taken; 0 is the    *)
(* null timestamp.                                                         *)
(***************************************************************************)
EXTENDS Integers, Sequences, FiniteSets, TLC

VARIABLES
    branchInventory,        \* BranchInventory rows: <<branchId, ingredientId>> -> currentStock
    inventoryTransaction,   \* InventoryTransaction rows, in the order of their creation
    purchaseOrder,          \* PurchaseOrder rows with their PurchaseOrderItem rows: id -> row
    inventoryTransfer,      \* InventoryTransfer rows with their InventoryTransferItem rows: id -> row
    wasteLog,               \* WasteLog rows, in the order of their creation
    clock,                  \* the time; one tick per accepted request
    req,                    \* the request each worker is serving: its position and locals
    ledgerStart,            \* the stock every (branch, ingredient) started with (0 without a row)
    atStart                 \* history: the ledger and the lengths of the logs when the
                            \* request of each worker was accepted

vars == <<branchInventory, inventoryTransaction, purchaseOrder, inventoryTransfer,
          wasteLog, clock, req, ledgerStart, atStart>>

db == <<branchInventory, inventoryTransaction, purchaseOrder, inventoryTransfer, wasteLog>>

(***************************************************************************)
(* Bounds of the model.                                                    *)
(***************************************************************************)
MaxReq == 3     \* requests accepted in one behaviour
MaxQty == 2     \* the ordered quantity of an item; quantities of requests reach MaxQty + 1

Procs == {1, 2}             \* request workers; the sequential specifications use worker 1
Branches == {"B1", "B2"}
Ingredients == {"ingA", "ingB"}
Users == {"u1", "u2"}
Null == "null"
Rows == Branches \X Ingredients

\* the sum of f[x] over the finite set S
RECURSIVE SumOver(_, _)
SumOver(f, S) ==
    IF S = {} THEN 0
    ELSE LET x == CHOOSE y \in S : TRUE IN f[x] + SumOver(f, S \ {x})

\* body.userId || 'system'
Actor(userId) == IF userId = Null THEN "system" ELSE userId

\* Prisma update({data}): the columns named in data are overwritten, the others kept
ApplyData(row, data) ==
    [c \in DOMAIN row |-> IF c \in DOMAIN data THEN data[c] ELSE row[c]]

\* an object literal restricted to the keys that are not undefined
Defined(keys, data) == [c \in keys |-> data[c]]

\* what atStart keeps of the database
Snapshot ==
    [branchInventory |-> branchInventory,
     inventoryTransaction |-> Len(inventoryTransaction),
     wasteLog |-> Len(wasteLog)]

Idle == [pc |-> "idle"]
InFlight(p) == req[p].pc \notin {"idle", "done"}
Free(p) == ~InFlight(p) /\ clock < MaxReq

\* NextResponse.json(body, {status}): the request is over
Respond(r, status, body) ==
    [pc |-> "done", op |-> r.op, body |-> r.body, t |-> r.t, status |-> status, json |-> body]

(***************************************************************************)
(* Column defaults of the relational schema (spec section 3 and 4).        *)
(***************************************************************************)
PurchaseOrderDefaults ==
    [status |-> "PENDING", approvedBy |-> Null, approvedAt |-> 0, receivedAt |-> 0]

PurchaseOrderItemDefaults == [receivedQty |-> 0]

(***************************************************************************)
(* Purchase orders: POST /api/purchase-orders                              *)
(***************************************************************************)
OrderNumbers == {"PO-1"}

\* request bodies that pass purchaseOrderItemSchema: positive quantity and unitPrice
PoItemLists ==
    { <<[ingredientId |-> "ingA", quantity |-> MaxQty, unitPrice |-> 2]>>,
      <<[ingredientId |-> "ingA", quantity |-> MaxQty, unitPrice |-> 2],
        [ingredientId |-> "ingB", quantity |-> 1, unitPrice |-> 3]>> }

OrderByNumber(orderNumber) ==
    {o \in DOMAIN purchaseOrder : purchaseOrder[o].orderNumber = orderNumber}

\* variant of TotalAmount: the amount of the first item only
TotalAmountFirstItem(items) == items[1].quantity * items[1].unitPrice

\* validatedData.items.reduce((sum, item) => sum + item.quantity * item.unitPrice, 0)
RECURSIVE TotalAmount(_)
TotalAmount(items) ==
    IF items = <<>> THEN 0
    ELSE TotalAmount(SubSeq(items, 1, Len(items) - 1))
         + items[Len(items)].quantity * items[Len(items)].unitPrice

\* the row db.purchaseOrder.create stores, with its nested items
NewPurchaseOrder(validatedData) ==
    [orderNumber |-> validatedData.orderNumber,
     branchId    |-> validatedData.branchId,
     totalAmount |-> TotalAmount(validatedData.items),
     items       |-> [i \in 1..Len(validatedData.items) |->
                        [ingredientId |-> validatedData.items[i].ingredientId,
                         quantity     |-> validatedData.items[i].quantity,
                         unitPrice    |-> validatedData.items[i].unitPrice]
                        @@ PurchaseOrderItemDefaults]]
    @@ PurchaseOrderDefaults

\* findUnique({orderNumber}) and the 409 of a known number
PoCreateFind(p) ==
    /\ Free(p)
    /\ \E orderNumber \in OrderNumbers, branchId \in Branches, items \in PoItemLists :
         LET r == [op |-> "poCreate", t |-> clock + 1,
                   body |-> [orderNumber |-> orderNumber, branchId |-> branchId,
                             items |-> items]]
         IN req' = [req EXCEPT ![p] =
                IF OrderByNumber(orderNumber) # {}
                THEN Respond(r, 409, "Purchase order with this number already exists")
                ELSE r @@ [pc |-> "po_create"]]
    /\ clock' = clock + 1
    /\ atStart' = [atStart EXCEPT ![p] = Snapshot]
    /\ UNCHANGED <<db, ledgerStart>>

\* db.purchaseOrder.create; orderNumber is a unique column
PoCreate(p) ==
    /\ req[p].pc = "po_create"
    /\ IF OrderByNumber(req[p].body.orderNumber) # {}
       THEN /\ req' = [req EXCEPT ![p] = Respond(req[p], 500, "Failed to create purchase order")]
            /\ UNCHANGED purchaseOrder
       ELSE /\ purchaseOrder' = (req[p].t :> NewPurchaseOrder(req[p].body)) @@ purchaseOrder
            /\ req' = [req EXCEPT ![p] = Respond(req[p], 201, req[p].t)]
    /\ UNCHANGED <<branchInventory, inventoryTransaction, inventoryTransfer, wasteLog,
                   clock, ledgerStart, atStart>>

(***************************************************************************)
(* Purchase orders: PUT /api/purchase-orders/[id]                          *)
(***************************************************************************)
PoStatuses == {"PENDING", "APPROVED", "RECEIVED", "PARTIAL", "CANCELLED"}

\* the ids a request can name: those of the stored orders and one that is not stored
OrderIds == DOMAIN purchaseOrder \cup {0}

\* variant of PoUpdateData: every approval names its approver
PoUpdateDataOverwrite(status, existingOrder, userId, now) ==
    LET validatedData == Defined(IF status = Null THEN {} ELSE {"status"}, [status |-> status])
    IN IF status = "APPROVED"
       THEN [approvedBy |-> Actor(userId), approvedAt |-> now] @@ validatedData
       ELSE validatedData

\* updateData: validatedData (status, when given) and, on a first approval, the approver
PoUpdateData(status, existingOrder, userId, now) ==
    LET validatedData == Defined(IF status = Null THEN {} ELSE {"status"}, [status |-> status])
    IN IF status = "APPROVED" /\ existingOrder.approvedBy = Null
       THEN [approvedBy |-> Actor(userId), approvedAt |-> now] @@ validatedData
       ELSE validatedData

\* findUnique({id}) and the 404
PoUpdateFind(p) ==
    /\ Free(p)
    /\ \E id \in OrderIds, status \in PoStatuses \cup {Null}, userId \in Users \cup {Null} :
         LET r == [op |-> "poUpdate", t |-> clock + 1,
                   body |-> [id |-> id, status |-> status, userId |-> userId]]
         IN req' = [req EXCEPT ![p] =
                IF id \notin DOMAIN purchaseOrder
                THEN Respond(r, 404, "Purchase order not found")
                ELSE r @@ [pc |-> "po_update", existingOrder |-> purchaseOrder[id]]]
    /\ clock' = clock + 1
    /\ atStart' = [atStart EXCEPT ![p] = Snapshot]
    /\ UNCHANGED <<db, ledgerStart>>

\* db.purchaseOrder.update({where: {id}, data: updateData})
PoUpdate(p) ==
    /\ req[p].pc = "po_update"
    /\ LET id == req[p].body.id
           updateData == PoUpdateData(req[p].body.status, req[p].existingOrder,
                                      req[p].body.userId, clock)
       IN IF id \notin DOMAIN purchaseOrder
          THEN /\ req' = [req EXCEPT ![p] = Respond(req[p], 500, "Failed to update purchase order")]
               /\ UNCHANGED purchaseOrder
          ELSE /\ purchaseOrder' = [purchaseOrder EXCEPT ![id] = ApplyData(@, updateData)]
               /\ req' = [req EXCEPT ![p] = Respond(req[p], 200, id)]
    /\ UNCHANGED <<branchInventory, inventoryTransaction, inventoryTransfer, wasteLog,
                   clock, ledgerStart, atStart>>

(***************************************************************************)
(* Purchase orders: DELETE /api/purchase-orders/[id]                       *)
(***************************************************************************)
\* variant of PoDeleteRefused: only a received order is refused
PoDeleteRefusedReceivedOnly(order) == order.status = "RECEIVED"

\* purchaseOrder.status !== 'PENDING'
PoDeleteRefused(order) == order.status # "PENDING"

\* findUnique({id}), the 404 and the 400 of an order that is not PENDING
PoDeleteFind(p) ==
    /\ Free(p)
    /\ \E id \in OrderIds :
         LET r == [op |-> "poDelete", t |-> clock + 1, body |-> [id |-> id]]
         IN req' = [req EXCEPT ![p] =
                IF id \notin DOMAIN purchaseOrder
                THEN Respond(r, 404, "Purchase order not found")
                ELSE IF PoDeleteRefused(purchaseOrder[id])
                THEN Respond(r, 400, "Can only delete pending purchase orders")
                ELSE r @@ [pc |-> "po_delete"]]
    /\ clock' = clock + 1
    /\ atStart' = [atStart EXCEPT ![p] = Snapshot]
    /\ UNCHANGED <<db, ledgerStart>>

\* db.purchaseOrder.delete({where: {id}}); the items go with the order
PoDelete(p) ==
    /\ req[p].pc = "po_delete"
    /\ LET id == req[p].body.id
       IN IF id \notin DOMAIN purchaseOrder
          THEN /\ req' = [req EXCEPT ![p] = Respond(req[p], 500, "Failed to delete purchase order")]
               /\ UNCHANGED purchaseOrder
          ELSE /\ purchaseOrder' = [o \in DOMAIN purchaseOrder \ {id} |-> purchaseOrder[o]]
               /\ req' = [req EXCEPT ![p] =
                      Respond(req[p], 200, "Purchase order deleted successfully")]
    /\ UNCHANGED <<branchInventory, inventoryTransaction, inventoryTransfer, wasteLog,
                   clock, ledgerStart, atStart>>

(***************************************************************************)
(* Purchase orders: POST /api/purchase-orders/[id] {action: "receive"}     *)
(***************************************************************************)
\* the ids of the items of an order are their positions; ItemIds holds one more id,
\* which no single-item order knows
ItemIds == {1, 2}

\* request bodies that pass receiveItemsSchema (receivedQty >= 0, any number of entries):
\* no entry, one entry of any quantity, or two entries of one unit each
ReceiveEntries == [itemId : ItemIds, receivedQty : 0..MaxQty]
UnitEntries == {e \in ReceiveEntries : e.receivedQty = 1}
ReceiveItemLists ==
    {<<>>} \cup {<<e>> : e \in ReceiveEntries}
           \cup {<<e, f>> : e \in UnitEntries, f \in UnitEntries}

\* purchaseOrder.items.find((i) => i.id === receivedItem.itemId) finds an item
KnownItem(order, receivedItem) == receivedItem.itemId \in 1..Len(order.items)

\* variant of NextEntry: an entry that names no item of the order ends the loop
NextEntryAbort(order, items, k) ==
    IF k > Len(items) \/ KnownItem(order, items[k]) THEN k ELSE Len(items) + 1

\* the first entry at or after k that names an item of the order (if (!item) continue)
RECURSIVE NextEntry(_, _, _)
NextEntry(order, items, k) ==
    IF k > Len(items) \/ KnownItem(order, items[k]) THEN k
    ELSE NextEntry(order, items, k + 1)

\* db.branchInventory.findUnique({where: {branchId_ingredientId}}) and findUnique({id})
FindInventory(key) ==
    IF key \in DOMAIN branchInventory
    THEN [found |-> TRUE, currentStock |-> branchInventory[key]]
    ELSE [found |-> FALSE]

\* data: {receivedQty: receivedItem.receivedQty + item.receivedQty}
ReceivedQtyWrite(receivedItem, item) == receivedItem.receivedQty + item.receivedQty

\* if (item.receivedQty + receivedItem.receivedQty < item.quantity) allReceived = false
ItemShort(receivedItem, item) == item.receivedQty + receivedItem.receivedQty < item.quantity

\* the status the handler computes after the loop
ReceiveStatus(status, allReceived, someReceived) ==
    IF allReceived /\ status # "RECEIVED" THEN "RECEIVED"
    ELSE IF someReceived /\ status = "PENDING" THEN "PARTIAL"
    ELSE status

\* variant of RestockedStock: the write stores the received quantity instead of adding it
RestockedStockOverwrite(inventory, receivedItem) == receivedItem.receivedQty

\* the currentStock the inventory write of an entry stores
RestockedStock(inventory, receivedItem) ==
    IF inventory.found THEN inventory.currentStock + receivedItem.receivedQty
    ELSE receivedItem.receivedQty

\* the RESTOCK row of an entry; inventory is the row the write returned
RestockTransaction(order, item, receivedItem, inventory) ==
    [branchId        |-> order.branchId,
     ingredientId    |-> item.ingredientId,
     transactionType |-> "RESTOCK",
     quantityChange  |-> receivedItem.receivedQty,
     stockBefore     |-> inventory.currentStock - receivedItem.receivedQty,
     stockAfter      |-> inventory.currentStock,
     reason          |-> <<"Purchase order", order.orderNumber>>]

ReceivePc(items, k) == IF k > Len(items) THEN "rcv_status" ELSE "rcv_find_inventory"

\* the entry a receive request is working on, and the item it names
ReceivedItem(r) == r.body.items[r.k]
ReceiveItemOf(r) == r.purchaseOrder.items[ReceivedItem(r).itemId]
ReceiveKey(r) == <<r.purchaseOrder.branchId, ReceiveItemOf(r).ingredientId>>

\* variant of ReceiveRefused: no order is refused
ReceiveRefusedNever(order) == FALSE

\* purchaseOrder.status === 'CANCELLED'
ReceiveRefused(order) == order.status = "CANCELLED"

\* findUnique({id}, include items), the 404 and the 400 of a cancelled order
ReceiveFind(p) ==
    /\ Free(p)
    /\ \E id \in OrderIds, items \in ReceiveItemLists :
         LET r == [op |-> "receive", t |-> clock + 1, body |-> [id |-> id, items |-> items]]
         IN req' = [req EXCEPT ![p] =
                IF id \notin DOMAIN purchaseOrder
                THEN Respond(r, 404, "Purchase order not found")
                ELSE IF ReceiveRefused(purchaseOrder[id])
                THEN Respond(r, 400, "Cannot receive items from cancelled purchase order")
                ELSE LET k == NextEntry(purchaseOrder[id], items, 1)
                     IN r @@ [pc |-> ReceivePc(items, k), purchaseOrder |-> purchaseOrder[id],
                              k |-> k, inventory |-> [found |-> FALSE],
                              allReceived |-> TRUE, someReceived |-> FALSE]]
    /\ clock' = clock + 1
    /\ atStart' = [atStart EXCEPT ![p] = Snapshot]
    /\ UNCHANGED <<db, ledgerStart>>

\* db.branchInventory.findUnique for the entry's (branchId, ingredientId)
ReceiveFindInventory(p) ==
    /\ req[p].pc = "rcv_find_inventory"
    /\ req' = [req EXCEPT ![p].inventory = FindInventory(ReceiveKey(req[p])),
                          ![p].pc = "rcv_write_inventory"]
    /\ UNCHANGED <<db, clock, ledgerStart, atStart>>

\* db.branchInventory.create, or update({currentStock: {increment}}) of the row found;
\* (branchId, ingredientId) is a unique key
ReceiveWriteInventory(p) ==
    /\ req[p].pc = "rcv_write_inventory"
    /\ LET r == req[p]
           key == ReceiveKey(r)
       IN IF ~r.inventory.found /\ key \in DOMAIN branchInventory
          THEN /\ req' = [req EXCEPT ![p] =
                      Respond(r, 500, "Failed to receive purchase order items")]
               /\ UNCHANGED branchInventory
          ELSE LET stock == RestockedStock(FindInventory(key), ReceivedItem(r))
               IN /\ branchInventory' = (key :> stock) @@ branchInventory
                  /\ req' = [req EXCEPT ![p].inventory = [found |-> TRUE, currentStock |-> stock],
                                        ![p].pc = "rcv_transaction"]
    /\ UNCHANGED <<inventoryTransaction, purchaseOrder, inventoryTransfer, wasteLog,
                   clock, ledgerStart, atStart>>

\* db.inventoryTransaction.create of the RESTOCK row
ReceiveTransaction(p) ==
    /\ req[p].pc = "rcv_transaction"
    /\ LET r == req[p]
       IN inventoryTransaction' = Append(inventoryTransaction,
              RestockTransaction(r.purchaseOrder, ReceiveItemOf(r), ReceivedItem(r), r.inventory))
    /\ req' = [req EXCEPT ![p].pc = "rcv_item"]
    /\ UNCHANGED <<branchInventory, purchaseOrder, inventoryTransfer, wasteLog,
                   clock, ledgerStart, atStart>>

\* db.purchaseOrderItem.update of receivedQty, then the two flags and the next entry
ReceiveItemUpdate(p) ==
    /\ req[p].pc = "rcv_item"
    /\ LET r == req[p]
           id == r.body.id
           receivedItem == ReceivedItem(r)
           item == ReceiveItemOf(r)
           k == NextEntry(r.purchaseOrder, r.body.items, r.k + 1)
       IN IF id \notin DOMAIN purchaseOrder
          THEN /\ req' = [req EXCEPT ![p] =
                      Respond(r, 500, "Failed to receive purchase order items")]
               /\ UNCHANGED purchaseOrder
          ELSE /\ purchaseOrder' = [purchaseOrder EXCEPT
                      ![id].items[receivedItem.itemId].receivedQty =
                          ReceivedQtyWrite(receivedItem, item)]
               /\ req' = [req EXCEPT
                      ![p].someReceived = r.someReceived \/ receivedItem.receivedQty > 0,
                      ![p].allReceived = r.allReceived /\ ~ItemShort(receivedItem, item),
                      ![p].k = k,
                      ![p].pc = ReceivePc(r.body.items, k)]
    /\ UNCHANGED <<branchInventory, inventoryTransaction, inventoryTransfer, wasteLog,
                   clock, ledgerStart, atStart>>

\* db.purchaseOrder.update of the status when it changes, and the response
ReceiveFinish(p) ==
    /\ req[p].pc = "rcv_status"
    /\ LET r == req[p]
           id == r.body.id
           status == ReceiveStatus(r.purchaseOrder.status, r.allReceived, r.someReceived)
           data == IF status = "RECEIVED" THEN [status |-> status, receivedAt |-> clock]
                   ELSE [status |-> status]
       IN IF status = r.purchaseOrder.status
          THEN /\ req' = [req EXCEPT ![p] = Respond(r, 200, id)]
               /\ UNCHANGED purchaseOrder
          ELSE IF id \notin DOMAIN purchaseOrder
          THEN /\ req' = [req EXCEPT ![p] =
                      Respond(r, 500, "Failed to receive purchase order items")]
               /\ UNCHANGED purchaseOrder
          ELSE /\ purchaseOrder' = [purchaseOrder EXCEPT ![id] = ApplyData(@, data)]
               /\ req' = [req EXCEPT ![p] = Respond(r, 200, id)]
    /\ UNCHANGED <<branchInventory, inventoryTransaction, inventoryTransfer, wasteLog,
                   clock, ledgerStart, atStart>>

(***************************************************************************)
(* Transfers: POST /api/transfers                                          *)
(***************************************************************************)
InventoryTransferDefaults ==
    [status |-> "PENDING", approvedBy |-> Null, approvedAt |-> 0,
     completedBy |-> Null, completedAt |-> 0]

TransferNumbers == {"TR-1"}

\* request bodies that pass transferItemSchema: positive quantities, at least one item
TransferItemLists ==
    { <<[ingredientId |-> "ingA", quantity |-> MaxQty]>>,
      <<[ingredientId |-> "ingA", quantity |-> MaxQty + 1]>>,
      <<[ingredientId |-> "ingA", quantity |-> 1], [ingredientId |-> "ingB", quantity |-> 1]>>,
      <<[ingredientId |-> "ingA", quantity |-> MaxQty + 1],
        [ingredientId |-> "ingB", quantity |-> 1]>>,
      <<[ingredientId |-> "ingA", quantity |-> 1], [ingredientId |-> "ingA", quantity |-> 1]>> }

TransferByNumber(transferNumber) ==
    {x \in DOMAIN inventoryTransfer : inventoryTransfer[x].transferNumber = transferNumber}

\* variant of SameBranch: the branches are not compared
SameBranchUnchecked(validatedData) == FALSE

\* validatedData.sourceBranchId === validatedData.targetBranchId
SameBranch(validatedData) == validatedData.sourceBranchId = validatedData.targetBranchId

\* a callback of validatedData.items.map(async (item) => ...) before its first await
CheckStart(item) ==
    [pc |-> "source", ingredientId |-> item.ingredientId, quantity |-> item.quantity,
     availableStock |-> 0, sourceFound |-> FALSE]

\* availableStock: sourceInventory?.currentStock || 0
AvailableStock(sourceInventory) ==
    IF sourceInventory.found THEN sourceInventory.currentStock ELSE 0

\* variant of InsufficientStock: a shortfall of one unit passes
InsufficientStockOffByOne(inventoryChecks) ==
    {i \in 1..Len(inventoryChecks) :
        inventoryChecks[i].availableStock + 1 < inventoryChecks[i].quantity}

\* inventoryChecks.filter((check) => check.availableStock < check.quantity)
InsufficientStock(inventoryChecks) ==
    {i \in 1..Len(inventoryChecks) :
        inventoryChecks[i].availableStock < inventoryChecks[i].quantity}

\* the currentStock of the target row a transfer Create provisions
ProvisionedStock == 0

Settled(inventoryChecks) ==
    \A i \in 1..Len(inventoryChecks) : inventoryChecks[i].pc \in {"done", "rejected"}

\* the request after a step of one callback: Promise.all settles when every callback
\* has; a rejected callback makes it throw, a shortfall is answered 400
AfterCheck(r, inventoryChecks) ==
    IF ~Settled(inventoryChecks)
    THEN [r EXCEPT !.inventoryChecks = inventoryChecks]
    ELSE IF \E i \in 1..Len(inventoryChecks) : inventoryChecks[i].pc = "rejected"
    THEN Respond(r, 500, "Failed to create transfer")
    ELSE IF InsufficientStock(inventoryChecks) # {}
    THEN Respond(r, 400,
             [error |-> "Insufficient stock in source branch",
              items |-> {[ingredientId |-> inventoryChecks[i].ingredientId,
                          requested    |-> inventoryChecks[i].quantity,
                          available    |-> inventoryChecks[i].availableStock] :
                         i \in InsufficientStock(inventoryChecks)}])
    ELSE [r EXCEPT !.inventoryChecks = inventoryChecks, !.pc = "tc_create"]

\* the row db.inventoryTransfer.create stores, with its nested items
NewTransfer(validatedData, inventoryChecks, userId) ==
    [transferNumber |-> validatedData.transferNumber,
     sourceBranchId |-> validatedData.sourceBranchId,
     targetBranchId |-> validatedData.targetBranchId,
     requestedBy    |-> Actor(userId),
     items          |-> [i \in 1..Len(inventoryChecks) |->
                           [ingredientId      |-> inventoryChecks[i].ingredientId,
                            sourceInventoryId |-> <<validatedData.sourceBranchId,
                                                    inventoryChecks[i].ingredientId>>,
                            targetInventoryId |-> <<validatedData.targetBranchId,
                                                    inventoryChecks[i].ingredientId>>,
                            quantity          |-> inventoryChecks[i].quantity]]]
    @@ InventoryTransferDefaults

\* findUnique({transferNumber}), the 409, and the 400 of source = target
TransferCreateFind(p) ==
    /\ Free(p)
    /\ \E transferNumber \in TransferNumbers, sourceBranchId \in Branches,
          targetBranchId \in Branches, items \in TransferItemLists :
         LET r == [op |-> "transferCreate", t |-> clock + 1,
                   body |-> [transferNumber |-> transferNumber,
                             sourceBranchId |-> sourceBranchId,
                             targetBranchId |-> targetBranchId,
                             items |-> items, userId |-> Null]]
         IN req' = [req EXCEPT ![p] =
                IF TransferByNumber(transferNumber) # {}
                THEN Respond(r, 409, "Transfer with this number already exists")
                ELSE IF SameBranch(r.body)
                THEN Respond(r, 400, "Source and target branches must be different")
                ELSE r @@ [pc |-> "tc_checks",
                           inventoryChecks |-> [i \in 1..Len(items) |-> CheckStart(items[i])]]]
    /\ clock' = clock + 1
    /\ atStart' = [atStart EXCEPT ![p] = Snapshot]
    /\ UNCHANGED <<db, ledgerStart>>

\* one database call of one callback of Promise.all: findUnique of the source row,
\* findUnique of the target row, create of the missing target row
TransferCreateCheck(p) ==
    /\ req[p].pc = "tc_checks"
    /\ \E i \in 1..Len(req[p].inventoryChecks) :
         LET r == req[p]
             check == r.inventoryChecks[i]
             source == <<r.body.sourceBranchId, check.ingredientId>>
             target == <<r.body.targetBranchId, check.ingredientId>>
             step(c) == AfterCheck(r, [r.inventoryChecks EXCEPT ![i] = c])
         IN \/ /\ check.pc = "source"
               /\ req' = [req EXCEPT ![p] = step([check EXCEPT
                                !.availableStock = AvailableStock(FindInventory(source)),
                                !.sourceFound = FindInventory(source).found,
                                !.pc = "target"])]
               /\ UNCHANGED branchInventory
            \/ /\ check.pc = "target"
               /\ req' = [req EXCEPT ![p] = step([check EXCEPT
                                !.pc = IF FindInventory(target).found THEN "done" ELSE "create"])]
               /\ UNCHANGED branchInventory
            \/ /\ check.pc = "create"
               /\ IF target \in DOMAIN branchInventory
                  THEN /\ req' = [req EXCEPT ![p] = step([check EXCEPT !.pc = "rejected"])]
                       /\ UNCHANGED branchInventory
                  ELSE /\ branchInventory' = (target :> ProvisionedStock) @@ branchInventory
                       /\ req' = [req EXCEPT ![p] = step([check EXCEPT !.pc = "done"])]
    /\ UNCHANGED <<inventoryTransaction, purchaseOrder, inventoryTransfer, wasteLog,
                   clock, ledgerStart, atStart>>

\* db.inventoryTransfer.create; transferNumber is a unique column
TransferCreate(p) ==
    /\ req[p].pc = "tc_create"
    /\ IF TransferByNumber(req[p].body.transferNumber) # {}
       THEN /\ req' = [req EXCEPT ![p] = Respond(req[p], 500, "Failed to create transfer")]
            /\ UNCHANGED inventoryTransfer
       ELSE /\ inventoryTransfer' =
                  (req[p].t :> NewTransfer(req[p].body, req[p].inventoryChecks, req[p].body.userId))
                  @@ inventoryTransfer
            /\ req' = [req EXCEPT ![p] = Respond(req[p], 201, req[p].t)]
    /\ UNCHANGED <<branchInventory, inventoryTransaction, purchaseOrder, wasteLog,
                   clock, ledgerStart, atStart>>

(***************************************************************************)
(* Transfers: PUT /api/transfers/[id]                                      *)
(***************************************************************************)
TransferStatuses == {"PENDING", "APPROVED", "IN_TRANSIT", "COMPLETED", "CANCELLED"}

TransferIds == DOMAIN inventoryTransfer \cup {0}

\* updateData: validatedData (status, when given), the approver on a first approval,
\* the completer on a first completion
TransferUpdateData(status, existingTransfer, userId, now) ==
    LET validatedData == Defined(IF status = Null THEN {} ELSE {"status"}, [status |-> status])
        approval == IF status = "APPROVED" /\ existingTransfer.approvedBy = Null
                    THEN [approvedBy |-> Actor(userId), approvedAt |-> now] ELSE <<>>
        completion == IF status = "COMPLETED" /\ existingTransfer.completedBy = Null
                      THEN [completedBy |-> Actor(userId), completedAt |-> now] ELSE <<>>
    IN completion @@ approval @@ validatedData

\* if (validatedData.status === 'COMPLETED'): the item loop runs
ProcessesItems(status, existingTransfer) == status = "COMPLETED"

\* the currentStock the target write of an item stores
TargetStock(targetInventory, item) ==
    IF targetInventory.found THEN targetInventory.currentStock + item.quantity
    ELSE item.quantity

\* variant of SourceStock: the source loses one unit whatever the item's quantity
SourceStockByOne(currentStock, item) == currentStock - 1

\* currentStock: {decrement: item.quantity}
SourceStock(currentStock, item) == currentStock - item.quantity

\* the ADJUSTMENT row of the source; sourceInventory is the row read before the decrement
SourceTransaction(existingTransfer, item, sourceInventory) ==
    [branchId        |-> existingTransfer.sourceBranchId,
     ingredientId    |-> item.ingredientId,
     transactionType |-> "ADJUSTMENT",
     quantityChange  |-> -item.quantity,
     stockBefore     |-> sourceInventory.currentStock,
     stockAfter      |-> sourceInventory.currentStock - item.quantity,
     reason          |-> <<"Transfer to", existingTransfer.targetBranchId,
                           existingTransfer.transferNumber>>]

\* the ADJUSTMENT row of the target; targetInventory is the row the write returned
TargetTransaction(existingTransfer, item, targetInventory) ==
    [branchId        |-> existingTransfer.targetBranchId,
     ingredientId    |-> item.ingredientId,
     transactionType |-> "ADJUSTMENT",
     quantityChange  |-> item.quantity,
     stockBefore     |-> targetInventory.currentStock - item.quantity,
     stockAfter      |-> targetInventory.currentStock,
     reason          |-> <<"Transfer from", existingTransfer.sourceBranchId,
                           existingTransfer.transferNumber>>]

\* the item a transfer update is working on, and the target row of that item
TransferItemOf(r) == r.existingTransfer.items[r.k]
TargetKey(r) == <<r.existingTransfer.targetBranchId, TransferItemOf(r).ingredientId>>

TransferLoopPc(existingTransfer, k) ==
    IF k > Len(existingTransfer.items) THEN "tu_update" ELSE "tu_find_target"

\* findUnique({id}, include items), the 404, and updateData
TransferUpdateFind(p) ==
    /\ Free(p)
    /\ \E id \in TransferIds, status \in TransferStatuses \cup {Null}, userId \in Users \cup {Null} :
         LET r == [op |-> "transferUpdate", t |-> clock + 1,
                   body |-> [id |-> id, status |-> status, userId |-> userId]]
         IN req' = [req EXCEPT ![p] =
                IF id \notin DOMAIN inventoryTransfer
                THEN Respond(r, 404, "Transfer not found")
                ELSE LET existingTransfer == inventoryTransfer[id]
                     IN r @@ [pc |-> IF ProcessesItems(status, existingTransfer)
                                     THEN TransferLoopPc(existingTransfer, 1)
                                     ELSE "tu_update",
                              existingTransfer |-> existingTransfer,
                              updateData |-> TransferUpdateData(status, existingTransfer,
                                                                userId, clock + 1),
                              k |-> 1,
                              targetInventory |-> [found |-> FALSE],
                              sourceInventory |-> [found |-> FALSE]]]
    /\ clock' = clock + 1
    /\ atStart' = [atStart EXCEPT ![p] = Snapshot]
    /\ UNCHANGED <<db, ledgerStart>>

\* db.branchInventory.findUnique of the target row of the item
TransferFindTarget(p) ==
    /\ req[p].pc = "tu_find_target"
    /\ req' = [req EXCEPT ![p].targetInventory = FindInventory(TargetKey(req[p])),
                          ![p].pc = "tu_write_target"]
    /\ UNCHANGED <<db, clock, ledgerStart, atStart>>

\* db.branchInventory.create, or update({currentStock: {increment}}) of the target row
TransferWriteTarget(p) ==
    /\ req[p].pc = "tu_write_target"
    /\ LET r == req[p]
           key == TargetKey(r)
       IN IF ~r.targetInventory.found /\ key \in DOMAIN branchInventory
          THEN /\ req' = [req EXCEPT ![p] = Respond(r, 500, "Failed to update transfer")]
               /\ UNCHANGED branchInventory
          ELSE LET stock == TargetStock(FindInventory(key), TransferItemOf(r))
               IN /\ branchInventory' = (key :> stock) @@ branchInventory
                  /\ req' = [req EXCEPT
                         ![p].targetInventory = [found |-> TRUE, currentStock |-> stock],
                         ![p].pc = "tu_item"]
    /\ UNCHANGED <<inventoryTransaction, purchaseOrder, inventoryTransfer, wasteLog,
                   clock, ledgerStart, atStart>>

\* db.inventoryTransferItem.update({targetInventoryId: targetInventory.id})
TransferItemUpdate(p) ==
    /\ req[p].pc = "tu_item"
    /\ LET r == req[p]
           id == r.body.id
       IN IF id \notin DOMAIN inventoryTransfer
          THEN /\ req' = [req EXCEPT ![p] = Respond(r, 500, "Failed to update transfer")]
               /\ UNCHANGED inventoryTransfer
          ELSE /\ inventoryTransfer' =
                     [inventoryTransfer EXCEPT ![id].items[r.k].targetInventoryId = TargetKey(r)]
               /\ req' = [req EXCEPT ![p].pc = "tu_find_source"]
    /\ UNCHANGED <<branchInventory, inventoryTransaction, purchaseOrder, wasteLog,
                   clock, ledgerStart, atStart>>

\* db.branchInventory.findUnique({id: item.sourceInventoryId})
TransferFindSource(p) ==
    /\ req[p].pc = "tu_find_source"
    /\ LET sourceInventory == FindInventory(TransferItemOf(req[p]).sourceInventoryId)
       IN req' = [req EXCEPT ![p].sourceInventory = sourceInventory,
                             ![p].pc = IF sourceInventory.found THEN "tu_write_source"
                                       ELSE "tu_transaction_target"]
    /\ UNCHANGED <<db, clock, ledgerStart, atStart>>

\* db.branchInventory.update({currentStock: {decrement}}) of the source row
TransferWriteSource(p) ==
    /\ req[p].pc = "tu_write_source"
    /\ LET item == TransferItemOf(req[p])
       IN branchInventory' = [branchInventory EXCEPT
              ![item.sourceInventoryId] = SourceStock(@, item)]
    /\ req' = [req EXCEPT ![p].pc = "tu_transaction_source"]
    /\ UNCHANGED <<inventoryTransaction, purchaseOrder, inventoryTransfer, wasteLog,
                   clock, ledgerStart, atStart>>

\* db.inventoryTransaction.create of the source row's ADJUSTMENT
TransferTransactionSource(p) ==
    /\ req[p].pc = "tu_transaction_source"
    /\ LET r == req[p]
       IN inventoryTransaction' = Append(inventoryTransaction,
              SourceTransaction(r.existingTransfer, TransferItemOf(r), r.sourceInventory))
    /\ req' = [req EXCEPT ![p].pc = "tu_transaction_target"]
    /\ UNCHANGED <<branchInventory, purchaseOrder, inventoryTransfer, wasteLog,
                   clock, ledgerStart, atStart>>

\* db.inventoryTransaction.create of the target row's ADJUSTMENT, then the next item
TransferTransactionTarget(p) ==
    /\ req[p].pc = "tu_transaction_target"
    /\ LET r == req[p]
       IN /\ inventoryTransaction' = Append(inventoryTransaction,
                 TargetTransaction(r.existingTransfer, TransferItemOf(r), r.targetInventory))
          /\ req' = [req EXCEPT ![p].k = r.k + 1,
                                ![p].pc = TransferLoopPc(r.existingTransfer, r.k + 1)]
    /\ UNCHANGED <<branchInventory, purchaseOrder, inventoryTransfer, wasteLog,
                   clock, ledgerStart, atStart>>

\* db.inventoryTransfer.update({where: {id}, data: updateData})
TransferUpdate(p) ==
    /\ req[p].pc = "tu_update"
    /\ LET id == req[p].body.id
       IN IF id \notin DOMAIN inventoryTransfer
          THEN /\ req' = [req EXCEPT ![p] = Respond(req[p], 500, "Failed to update transfer")]
               /\ UNCHANGED inventoryTransfer
          ELSE /\ inventoryTransfer' =
                     [inventoryTransfer EXCEPT ![id] = ApplyData(@, req[p].updateData)]
               /\ req' = [req EXCEPT ![p] = Respond(req[p], 200, id)]
    /\ UNCHANGED <<branchInventory, inventoryTransaction, purchaseOrder, wasteLog,
                   clock, ledgerStart, atStart>>

(***************************************************************************)
(* Transfers: DELETE /api/transfers/[id]                                   *)
(***************************************************************************)
\* transfer.status !== 'PENDING'
TransferDeleteRefused(transfer) == transfer.status # "PENDING"

\* findUnique({id}), the 404 and the 400 of a transfer that is not PENDING
TransferDeleteFind(p) ==
    /\ Free(p)
    /\ \E id \in TransferIds :
         LET r == [op |-> "transferDelete", t |-> clock + 1, body |-> [id |-> id]]
         IN req' = [req EXCEPT ![p] =
                IF id \notin DOMAIN inventoryTransfer
                THEN Respond(r, 404, "Transfer not found")
                ELSE IF TransferDeleteRefused(inventoryTransfer[id])
                THEN Respond(r, 400, "Can only delete pending transfers")
                ELSE r @@ [pc |-> "tr_delete"]]
    /\ clock' = clock + 1
    /\ atStart' = [atStart EXCEPT ![p] = Snapshot]
    /\ UNCHANGED <<db, ledgerStart>>

\* db.inventoryTransfer.delete({where: {id}}); the items go with the transfer
TransferDelete(p) ==
    /\ req[p].pc = "tr_delete"
    /\ LET id == req[p].body.id
       IN IF id \notin DOMAIN inventoryTransfer
          THEN /\ req' = [req EXCEPT ![p] = Respond(req[p], 500, "Failed to delete transfer")]
               /\ UNCHANGED inventoryTransfer
          ELSE /\ inventoryTransfer' =
                     [x \in DOMAIN inventoryTransfer \ {id} |-> inventoryTransfer[x]]
               /\ req' = [req EXCEPT ![p] = Respond(req[p], 200, "Transfer deleted successfully")]
    /\ UNCHANGED <<branchInventory, inventoryTransaction, purchaseOrder, wasteLog,
                   clock, ledgerStart, atStart>>

(***************************************************************************)
(* Waste: POST /api/waste-logs                                             *)
(***************************************************************************)
\* Ingredient.costPerUnit of the catalogue; "ingX" is an id the catalogue does not hold
CostPerUnit == [i \in Ingredients |-> IF i = "ingA" THEN 2 ELSE 3]

\* request bodies that pass createWasteLogSchema: positive quantity
WasteBodies ==
    [branchId : Branches, ingredientId : Ingredients \cup {"ingX"},
     quantity : 1..(MaxQty + 1), reason : {"EXPIRED"}]

\* variant of WasteInsufficient: only an empty row is refused
WasteInsufficientEmptyOnly(inventory, validatedData) == inventory.currentStock <= 0

\* inventory.currentStock < validatedData.quantity
WasteInsufficient(inventory, validatedData) == inventory.currentStock < validatedData.quantity

\* currentStock: {decrement: validatedData.quantity}
WastedStock(currentStock, validatedData) == currentStock - validatedData.quantity

\* variant of WasteWrite: the new stock is computed from the row the request read
WasteWriteFromRead(inventory, currentStock, validatedData) ==
    WastedStock(inventory.currentStock, validatedData)

\* update({where: {id: inventory.id}, data: {currentStock: {decrement}}}): the database
\* applies the decrement to the stored currentStock, not to the row the request read
WasteWrite(inventory, currentStock, validatedData) ==
    WastedStock(currentStock, validatedData)

\* the WasteLog row: the validated body, lossValue and the recorder
NewWasteLog(validatedData, lossValue) ==
    [branchId |-> validatedData.branchId, ingredientId |-> validatedData.ingredientId,
     quantity |-> validatedData.quantity, reason |-> validatedData.reason,
     lossValue |-> lossValue]

\* the WASTE row; inventory is the row read, updatedInventory the row the decrement returned
WasteTransaction(validatedData, inventory, updatedInventory) ==
    [branchId        |-> validatedData.branchId,
     ingredientId    |-> validatedData.ingredientId,
     transactionType |-> "WASTE",
     quantityChange  |-> -validatedData.quantity,
     stockBefore     |-> inventory.currentStock,
     stockAfter      |-> updatedInventory.currentStock,
     reason          |-> <<validatedData.reason>>]

WasteKey(r) == <<r.body.branchId, r.body.ingredientId>>

\* db.ingredient.findUnique, the 404 of an unknown ingredient, and lossValue
WasteFindIngredient(p) ==
    /\ Free(p)
    /\ \E body \in WasteBodies :
         LET r == [op |-> "waste", t |-> clock + 1, body |-> body]
         IN req' = [req EXCEPT ![p] =
                IF body.ingredientId \notin Ingredients
                THEN Respond(r, 404, "Ingredient not found")
                ELSE r @@ [pc |-> "w_find_inventory",
                           lossValue |-> body.quantity * CostPerUnit[body.ingredientId],
                           inventory |-> [found |-> FALSE],
                           updatedInventory |-> [found |-> FALSE]]]
    /\ clock' = clock + 1
    /\ atStart' = [atStart EXCEPT ![p] = Snapshot]
    /\ UNCHANGED <<db, ledgerStart>>

\* db.branchInventory.findUnique, the 404 of a missing row, the 400 of a shortfall
WasteFindInventory(p) ==
    /\ req[p].pc = "w_find_inventory"
    /\ LET r == req[p]
           inventory == FindInventory(WasteKey(r))
       IN req' = [req EXCEPT ![p] =
              IF ~inventory.found
              THEN Respond(r, 404, "Inventory not found for this branch and ingredient")
              ELSE IF WasteInsufficient(inventory, r.body)
              THEN Respond(r, 400, [error |-> "Insufficient stock",
                                    available |-> inventory.currentStock,
                                    requested |-> r.body.quantity])
              ELSE [r EXCEPT !.inventory = inventory, !.pc = "w_update"]]
    /\ UNCHANGED <<db, clock, ledgerStart, atStart>>

\* db.branchInventory.update({currentStock: {decrement}})
WasteUpdateInventory(p) ==
    /\ req[p].pc = "w_update"
    /\ LET key == WasteKey(req[p])
           stock == WasteWrite(req[p].inventory, branchInventory[key], req[p].body)
       IN /\ branchInventory' = [branchInventory EXCEPT ![key] = stock]
          /\ req' = [req EXCEPT ![p].updatedInventory = [found |-> TRUE, currentStock |-> stock],
                                ![p].pc = "w_log"]
    /\ UNCHANGED <<inventoryTransaction, purchaseOrder, inventoryTransfer, wasteLog,
                   clock, ledgerStart, atStart>>

\* db.wasteLog.create
WasteCreateLog(p) ==
    /\ req[p].pc = "w_log"
    /\ wasteLog' = Append(wasteLog, NewWasteLog(req[p].body, req[p].lossValue))
    /\ req' = [req EXCEPT ![p].pc = "w_transaction"]
    /\ UNCHANGED <<branchInventory, inventoryTransaction, purchaseOrder, inventoryTransfer,
                   clock, ledgerStart, atStart>>

\* db.inventoryTransaction.create of the WASTE row, and the 201
WasteTransactionCreate(p) ==
    /\ req[p].pc = "w_transaction"
    /\ LET r == req[p]
       IN /\ inventoryTransaction' = Append(inventoryTransaction,
                 WasteTransaction(r.body, r.inventory, r.updatedInventory))
          /\ req' = [req EXCEPT ![p] = Respond(r, 201, Len(wasteLog))]
    /\ UNCHANGED <<branchInventory, purchaseOrder, inventoryTransfer, wasteLog,
                   clock, ledgerStart, atStart>>

(***************************************************************************)
(* A database call of a request in flight rejects (or the process dies).   *)
(* The handler's catch block answers 500; nothing is rolled back.          *)
(***************************************************************************)
Fail(p) ==
    /\ InFlight(p)
    /\ req' = [req EXCEPT ![p] = Respond(req[p], 500, "InternalFailure") @@ [at |-> req[p].pc]]
    /\ UNCHANGED <<db, clock, ledgerStart, atStart>>

(***************************************************************************)
(* Initial states: no order, no transfer, empty logs, and a ledger in     *)
(* which no branch, branch B1 or both branches hold MaxQty of every        *)
(* ingredient.                                                             *)
(***************************************************************************)
InitialLedgers ==
    {[key \in stocked \X Ingredients |-> MaxQty] : stocked \in {{}, {"B1"}, Branches}}

Init ==
    /\ branchInventory \in InitialLedgers
    /\ ledgerStart = [key \in Rows |->
                        IF key \in DOMAIN branchInventory THEN branchInventory[key] ELSE 0]
    /\ inventoryTransaction = <<>>
    /\ purchaseOrder = <<>>
    /\ inventoryTransfer = <<>>
    /\ wasteLog = <<>>
    /\ clock = 0
    /\ req = [p \in Procs |-> Idle]
    /\ atStart = [p \in Procs |-> Snapshot]

(***************************************************************************)
(* The purchase-order engine, one request at a time.                       *)
(***************************************************************************)
NextPO ==
    \E p \in {1} :
        \/ PoCreateFind(p) \/ PoCreate(p)
        \/ PoUpdateFind(p) \/ PoUpdate(p)
        \/ PoDeleteFind(p) \/ PoDelete(p)
        \/ ReceiveFind(p) \/ ReceiveFindInventory(p) \/ ReceiveWriteInventory(p)
        \/ ReceiveTransaction(p) \/ ReceiveItemUpdate(p) \/ ReceiveFinish(p)
        \/ Fail(p)

SpecPO == Init /\ [][NextPO]_vars

(***************************************************************************)
(* The transfer engine, one request at a time.                             *)
(***************************************************************************)
NextTransfer ==
    \E p \in {1} :
        \/ TransferCreateFind(p) \/ TransferCreateCheck(p) \/ TransferCreate(p)
        \/ TransferUpdateFind(p) \/ TransferFindTarget(p) \/ TransferWriteTarget(p)
        \/ TransferItemUpdate(p) \/ TransferFindSource(p) \/ TransferWriteSource(p)
        \/ TransferTransactionSource(p) \/ TransferTransactionTarget(p) \/ TransferUpdate(p)
        \/ TransferDeleteFind(p) \/ TransferDelete(p)
        \/ Fail(p)

SpecTransfer == Init /\ [][NextTransfer]_vars

(***************************************************************************)
(* Waste recording, one request at a time.                                 *)
(***************************************************************************)
NextWaste ==
    \E p \in {1} :
        \/ WasteFindIngredient(p) \/ WasteFindInventory(p) \/ WasteUpdateInventory(p)
        \/ WasteCreateLog(p) \/ WasteTransactionCreate(p)
        \/ Fail(p)

SpecWaste == Init /\ [][NextWaste]_vars

(***************************************************************************)
(* Purchase orders created and received, one request at a time: no update, *)
(* no delete, no failing database call.                                    *)
(***************************************************************************)
NextReceive ==
    \E p \in {1} :
        \/ PoCreateFind(p) \/ PoCreate(p)
        \/ ReceiveFind(p) \/ ReceiveFindInventory(p) \/ ReceiveWriteInventory(p)
        \/ ReceiveTransaction(p) \/ ReceiveItemUpdate(p) \/ ReceiveFinish(p)

SpecReceive == Init /\ [][NextReceive]_vars

(***************************************************************************)
(* The life cycle of orders and transfers (create, update, delete), one    *)
(* request at a time.                                                      *)
(***************************************************************************)
NextLifecycle ==
    \E p \in {1} :
        \/ PoCreateFind(p) \/ PoCreate(p)
        \/ PoUpdateFind(p) \/ PoUpdate(p)
        \/ PoDeleteFind(p) \/ PoDelete(p)
        \/ TransferCreateFind(p) \/ TransferCreateCheck(p) \/ TransferCreate(p)
        \/ TransferUpdateFind(p) \/ TransferFindTarget(p) \/ TransferWriteTarget(p)
        \/ TransferItemUpdate(p) \/ TransferFindSource(p) \/ TransferWriteSource(p)
        \/ TransferTransactionSource(p) \/ TransferTransactionTarget(p) \/ TransferUpdate(p)
        \/ TransferDeleteFind(p) \/ TransferDelete(p)
        \/ Fail(p)

SpecLifecycle == Init /\ [][NextLifecycle]_vars

(***************************************************************************)
(* Two workers create purchase orders and transfers at the same time; no   *)
(* database call fails for a reason other than a unique key.  The orders   *)
(* are for branch B1, the transfers leave branch B1 with one item.         *)
(***************************************************************************)
NextCreateRace ==
    \E p \in Procs :
        \/ PoCreateFind(p) /\ req'[p].body.branchId = "B1"
        \/ PoCreate(p)
        \/ /\ TransferCreateFind(p)
           /\ req'[p].body.sourceBranchId = "B1"
           /\ Len(req'[p].body.items) = 1
        \/ TransferCreateCheck(p) \/ TransferCreate(p)

SpecCreateRace == Init /\ [][NextCreateRace]_vars

(***************************************************************************)
(* Two workers receive orders and record waste at the same time, on the    *)
(* ledger rows of branch B1; a Receive names one item.                     *)
(***************************************************************************)
NextLedgerRace ==
    \E p \in Procs :
        \/ PoCreateFind(p) /\ req'[p].body.branchId = "B1"
        \/ PoCreate(p)
        \/ ReceiveFind(p) /\ Len(req'[p].body.items) = 1
        \/ ReceiveFindInventory(p) \/ ReceiveWriteInventory(p)
        \/ ReceiveTransaction(p) \/ ReceiveItemUpdate(p) \/ ReceiveFinish(p)
        \/ /\ WasteFindIngredient(p)
           /\ req'[p].body.branchId = "B1"
           /\ req'[p].body.ingredientId \in Ingredients
        \/ WasteFindInventory(p) \/ WasteUpdateInventory(p)
        \/ WasteCreateLog(p) \/ WasteTransactionCreate(p)

SpecLedgerRace == Init /\ [][NextLedgerRace]_vars

(***************************************************************************)
(* Two workers change the stock of (B1, ingA) at the same time: Receive    *)
(* of a one-item order for B1, waste at B1, completion of a transfer of    *)
(* MaxQty of ingA from B1 to B2.                                           *)
(***************************************************************************)
NextStockRace ==
    \E p \in Procs :
        \/ /\ PoCreateFind(p)
           /\ req'[p].body.branchId = "B1"
           /\ Len(req'[p].body.items) = 1
        \/ PoCreate(p)
        \/ /\ ReceiveFind(p)
           /\ req'[p].body.id # 0
           /\ req'[p].body.items \in {<<[itemId |-> 1, receivedQty |-> q]>> : q \in 1..2}
        \/ ReceiveFindInventory(p) \/ ReceiveWriteInventory(p)
        \/ ReceiveTransaction(p) \/ ReceiveItemUpdate(p) \/ ReceiveFinish(p)
        \/ /\ WasteFindIngredient(p)
           /\ req'[p].body.branchId = "B1"
           /\ req'[p].body.ingredientId = "ingA"
           /\ req'[p].body.quantity <= 2
        \/ WasteFindInventory(p) \/ WasteUpdateInventory(p)
        \/ WasteCreateLog(p) \/ WasteTransactionCreate(p)
        \/ /\ TransferCreateFind(p)
           /\ req'[p].body.sourceBranchId = "B1"
           /\ req'[p].body.targetBranchId = "B2"
           /\ req'[p].body.items = <<[ingredientId |-> "ingA", quantity |-> MaxQty]>>
        \/ TransferCreateCheck(p) \/ TransferCreate(p)
        \/ /\ TransferUpdateFind(p)
           /\ req'[p].body.id # 0
           /\ req'[p].body.status = "COMPLETED"
           /\ req'[p].body.userId = Null
        \/ TransferFindTarget(p) \/ TransferWriteTarget(p) \/ TransferItemUpdate(p)
        \/ TransferFindSource(p) \/ TransferWriteSource(p)
        \/ TransferTransactionSource(p) \/ TransferTransactionTarget(p) \/ TransferUpdate(p)

SpecStockRace == Init /\ [][NextStockRace]_vars

(***************************************************************************)
(* Properties.                                                             *)
(***************************************************************************)
\* currentStock of a (branch, ingredient) in a ledger, 0 without a row
Stock(ledger, key) == IF key \in DOMAIN ledger THEN ledger[key] ELSE 0

\* the positions of the transaction log that belong to a (branch, ingredient)
RowsOf(key) ==
    {j \in 1..Len(inventoryTransaction) :
        <<inventoryTransaction[j].branchId, inventoryTransaction[j].ingredientId>> = key}

\* the sum of quantityChange over the positions S of the transaction log
LoggedChange(S) == SumOver([j \in S |-> inventoryTransaction[j].quantityChange], S)

\* worker p has finished a request of kind op with the given status
Answered(p, op, status) ==
    req[p].pc = "done" /\ req[p].op = op /\ req[p].status = status

\* this step accepts a request of kind op on worker p
Accepts(p, op) ==
    ~InFlight(p) /\ clock' = clock + 1 /\ req'[p].pc # "idle" /\ req'[p].op = op
    /\ req'[p].t = clock'

\* C1: in every reachable state, every BranchInventory row's currentStock is its
\* starting value plus the sum of quantityChange of the InventoryTransaction rows of
\* its (branchId, ingredientId)
LedgerMatchesLog ==
    \A key \in DOMAIN branchInventory :
        branchInventory[key] = ledgerStart[key] + LoggedChange(RowsOf(key))

\* C2: after any sequence of Receive calls, no item's receivedQty exceeds its
\* ordered quantity
ReceivedWithinOrdered ==
    \A o \in DOMAIN purchaseOrder : \A i \in 1..Len(purchaseOrder[o].items) :
        purchaseOrder[o].items[i].receivedQty <= purchaseOrder[o].items[i].quantity

\* C3: after every Receive call on a single-item order that started PENDING, the
\* item's receivedQty is the sum of the quantities received so far, the status is
\* PARTIAL while that sum is positive and below the ordered quantity, and RECEIVED
\* exactly from the call on that brings the sum to the ordered quantity
ReceiveAccumulates ==
    \A p \in Procs :
        (Answered(p, "receive", 200) /\ Len(purchaseOrder[req[p].body.id].items) = 1) =>
            LET order == purchaseOrder[req[p].body.id]
                item == order.items[1]
                sum == LoggedChange(1..Len(inventoryTransaction))
            IN /\ item.receivedQty = sum
               /\ (0 < sum /\ sum < item.quantity) => order.status = "PARTIAL"
               /\ order.status = "RECEIVED" <=> sum >= item.quantity

\* the entries of a finished Receive call that name an item of the order, the ledger
\* row of such an entry, and the quantity the call received for a row
AppliedEntries(r) ==
    {k \in 1..Len(r.body.items) : KnownItem(purchaseOrder[r.body.id], r.body.items[k])}
EntryKey(r, k) ==
    <<purchaseOrder[r.body.id].branchId,
      purchaseOrder[r.body.id].items[r.body.items[k].itemId].ingredientId>>
Credited(r, key) ==
    LET S == {k \in AppliedEntries(r) : EntryKey(r, k) = key}
    IN SumOver([k \in S |-> r.body.items[k].receivedQty], S)

\* C4: a Receive call raises the currentStock of the row of every entry it applies by
\* that entry's receivedQty (the row is created with that stock when missing), appends
\* one RESTOCK row with quantityChange = receivedQty per applied entry, and changes
\* no other row of the ledger
ReceiveCreditsLedger ==
    \A p \in Procs :
        Answered(p, "receive", 200) =>
            LET r == req[p]
                before == atStart[p]
                new == (before.inventoryTransaction + 1)..Len(inventoryTransaction)
            IN /\ \A key \in Rows :
                    /\ Stock(branchInventory, key)
                           = Stock(before.branchInventory, key) + Credited(r, key)
                    /\ key \in DOMAIN branchInventory <=>
                           \/ key \in DOMAIN before.branchInventory
                           \/ \E k \in AppliedEntries(r) : EntryKey(r, k) = key
                    /\ \A q \in 0..MaxQty :
                           Cardinality({j \in new \cap RowsOf(key) :
                                           inventoryTransaction[j].quantityChange = q})
                           = Cardinality({k \in AppliedEntries(r) :
                                             /\ EntryKey(r, k) = key
                                             /\ r.body.items[k].receivedQty = q})
               /\ Cardinality(new) = Cardinality(AppliedEntries(r))
               /\ \A j \in new : inventoryTransaction[j].transactionType = "RESTOCK"

\* C4 witness: a Receive call has applied two entries, one of them creating its row
ReceiveCreditsLedgerWitness ==
    /\ Answered(1, "receive", 200)
    /\ Cardinality(AppliedEntries(req[1])) = 2
    /\ \E key \in DOMAIN branchInventory :
          key \notin DOMAIN atStart[1].branchInventory /\ branchInventory[key] > 0
    /\ \E key \in DOMAIN atStart[1].branchInventory :
          branchInventory[key] > atStart[1].branchInventory[key]

\* C5: a Receive call leaves the order RECEIVED exactly when every item of the order
\* has receivedQty >= its ordered quantity after the call
ReceivedIffEveryItem ==
    \A p \in Procs :
        Answered(p, "receive", 200) =>
            LET order == purchaseOrder[req[p].body.id]
            IN order.status = "RECEIVED" <=>
                   \A i \in 1..Len(order.items) :
                       order.items[i].receivedQty >= order.items[i].quantity

\* the step of worker p is the failure of a database call
Fails(p) == InFlight(p) /\ req'[p].pc = "done" /\ "at" \in DOMAIN req'[p]

\* C6: a waste Record whose quantity exceeds the currentStock it reads is answered
\* 400 "Insufficient stock" with available = currentStock and requested = quantity,
\* and the ledger, the transaction log and the waste log stay as they are
WasteShortfallRejected ==
    [][\A p \in Procs :
          ( /\ req[p].pc = "w_find_inventory"
            /\ WasteKey(req[p]) \in DOMAIN branchInventory
            /\ req[p].body.quantity > branchInventory[WasteKey(req[p])]
            /\ req'[p] # req[p]
            /\ ~Fails(p) ) =>
          /\ req'[p].pc = "done"
          /\ req'[p].status = 400
          /\ req'[p].json = [error |-> "Insufficient stock",
                             available |-> branchInventory[WasteKey(req[p])],
                             requested |-> req[p].body.quantity]
          /\ UNCHANGED <<branchInventory, inventoryTransaction, wasteLog>>
          /\ branchInventory = atStart[p].branchInventory
          /\ Len(inventoryTransaction) = atStart[p].inventoryTransaction
          /\ Len(wasteLog) = atStart[p].wasteLog]_vars

\* C6 witness: a waste Record of more than the stock of its row has been answered 400
WasteShortfallRejectedWitness ==
    /\ Answered(1, "waste", 400)
    /\ req[1].json.available = branchInventory[<<req[1].body.branchId, req[1].body.ingredientId>>]
    /\ req[1].json.requested > req[1].json.available
    /\ Len(wasteLog) > 0

\* C7: a transfer Create with sourceBranchId = targetBranchId is rejected at once;
\* it stores no InventoryTransfer row and no BranchInventory row
SameBranchRejected ==
    /\ \A x \in DOMAIN inventoryTransfer :
          inventoryTransfer[x].sourceBranchId # inventoryTransfer[x].targetBranchId
    /\ \A p \in Procs :
          (req[p].pc # "idle" /\ req[p].op = "transferCreate" /\ SameBranch(req[p].body)) =>
              /\ req[p].pc = "done"
              /\ req[p].status \in {400, 409}
              /\ req[p].t \notin DOMAIN inventoryTransfer
              /\ branchInventory = atStart[p].branchInventory

\* C7 witness: a Create from a branch to itself has been answered 400
SameBranchRejectedWitness ==
    Answered(1, "transferCreate", 400) /\ SameBranch(req[1].body)

\* C8: an order or a transfer leaves storage only while PENDING; a Delete of one
\* that is not PENDING is answered 400 and changes nothing
DeleteOnlyPending ==
    [][/\ \A o \in DOMAIN purchaseOrder :
             o \notin DOMAIN purchaseOrder' => purchaseOrder[o].status = "PENDING"
       /\ \A x \in DOMAIN inventoryTransfer :
             x \notin DOMAIN inventoryTransfer' => inventoryTransfer[x].status = "PENDING"
       /\ \A p \in Procs :
             /\ ( /\ Accepts(p, "poDelete")
                  /\ req'[p].body.id \in DOMAIN purchaseOrder
                  /\ purchaseOrder[req'[p].body.id].status # "PENDING" ) =>
                    req'[p].pc = "done" /\ req'[p].status = 400 /\ UNCHANGED db
             /\ ( /\ Accepts(p, "transferDelete")
                  /\ req'[p].body.id \in DOMAIN inventoryTransfer
                  /\ inventoryTransfer[req'[p].body.id].status # "PENDING" ) =>
                    req'[p].pc = "done" /\ req'[p].status = 400 /\ UNCHANGED db]_vars

\* C8 witness: the Delete of an APPROVED order has been answered 400 and the order
\* is still stored, APPROVED
DeleteOnlyPendingWitness ==
    /\ Answered(1, "poDelete", 400)
    /\ req[1].body.id \in DOMAIN purchaseOrder
    /\ purchaseOrder[req[1].body.id].status = "APPROVED"

CompletionAllOrNothing ==
    \A p \in Procs :
        ( /\ Answered(p, "transferUpdate", 500)
          /\ req[p].body.status = "COMPLETED"
          /\ req[p].body.id \in DOMAIN inventoryTransfer ) =>
            LET transfer == inventoryTransfer[req[p].body.id]
                before == atStart[p].branchInventory
            IN \A i \in Ingredients :
                  Stock(branchInventory, <<transfer.targetBranchId, i>>)
                      - Stock(before, <<transfer.targetBranchId, i>>)
                  = Stock(before, <<transfer.sourceBranchId, i>>)
                      - Stock(branchInventory, <<transfer.sourceBranchId, i>>)

\* C11: a status = COMPLETED update of a transfer that is already COMPLETED applies
\* no stock delta again: from the moment the request is accepted the ledger and the
\* transaction log stay as the first completion left them
RecompletionIdempotent ==
    \A p \in Procs :
        ( /\ InFlight(p)
          /\ req[p].op = "transferUpdate"
          /\ req[p].body.status = "COMPLETED"
          /\ req[p].existingTransfer.status = "COMPLETED" ) =>
            /\ branchInventory = atStart[p].branchInventory
            /\ Len(inventoryTransaction) = atStart[p].inventoryTransaction

\* C12: once an order is RECEIVED or CANCELLED, no step of an update, a Receive or a
\* Delete changes its status, the receivedQty of its items or the ledger, and the
\* order stays stored
TerminalOrderFrozen ==
    [][\A o \in DOMAIN purchaseOrder :
          purchaseOrder[o].status \in {"RECEIVED", "CANCELLED"} =>
              /\ o \in DOMAIN purchaseOrder'
              /\ purchaseOrder'[o].status = purchaseOrder[o].status
              /\ \A i \in 1..Len(purchaseOrder[o].items) :
                    purchaseOrder'[o].items[i].receivedQty = purchaseOrder[o].items[i].receivedQty
              /\ UNCHANGED branchInventory]_vars

\* C13: the status of a transfer changes only along PENDING -> APPROVED -> IN_TRANSIT
\* -> COMPLETED, or to CANCELLED from a status that is not terminal
TransferStatusMachine ==
    [][LET edges == {<<"PENDING", "APPROVED">>, <<"APPROVED", "IN_TRANSIT">>,
                     <<"IN_TRANSIT", "COMPLETED">>}
                        \cup ({"PENDING", "APPROVED", "IN_TRANSIT"} \X {"CANCELLED"})
       IN \A x \in DOMAIN inventoryTransfer \cap DOMAIN inventoryTransfer' :
             \/ inventoryTransfer'[x].status = inventoryTransfer[x].status
             \/ <<inventoryTransfer[x].status, inventoryTransfer'[x].status>> \in edges]_vars

\* C14: a Receive on a CANCELLED order is answered 400 at once and changes no ledger
\* row, no transaction row, no receivedQty and no status
CancelledReceiveRejected ==
    [][\A p \in Procs :
          ( /\ Accepts(p, "receive")
            /\ req'[p].body.id \in DOMAIN purchaseOrder
            /\ purchaseOrder[req'[p].body.id].status = "CANCELLED" ) =>
              /\ req'[p].pc = "done"
              /\ req'[p].status = 400
              /\ UNCHANGED db]_vars

\* C14 witness: a Receive of a positive quantity for an item of a CANCELLED order has
\* been answered 400
CancelledReceiveRejectedWitness ==
    /\ Answered(1, "receive", 400)
    /\ req[1].body.id \in DOMAIN purchaseOrder
    /\ purchaseOrder[req[1].body.id].status = "CANCELLED"
    /\ \E k \in 1..Len(req[1].body.items) :
          /\ KnownItem(purchaseOrder[req[1].body.id], req[1].body.items[k])
          /\ req[1].body.items[k].receivedQty > 0

\* the items of a transfer Create that ask for more than the source row held when the
\* request was accepted (no row counts as 0)
Shortfalls(p) ==
    {k \in 1..Len(req[p].body.items) :
        req[p].body.items[k].quantity >
            Stock(atStart[p].branchInventory,
                  <<req[p].body.sourceBranchId, req[p].body.items[k].ingredientId>>)}

\* C15: a transfer Create with an item that exceeds the source stock never stores a
\* transfer; it changes no existing currentStock and no log, the only rows it adds are
\* target rows with currentStock 0, and its 400 lists the items that fall short
ShortfallRejectsWhole ==
    \A p \in Procs :
        ( /\ req[p].pc # "idle"
          /\ req[p].op = "transferCreate"
          /\ ~SameBranch(req[p].body)
          /\ Shortfalls(p) # {} ) =>
            /\ req[p].t \notin DOMAIN inventoryTransfer
            /\ req[p].pc # "tc_create"
            /\ req[p].pc = "done" => req[p].status \in {400, 409, 500}
            /\ (req[p].pc = "done" /\ req[p].status = 400) =>
                  {i.ingredientId : i \in req[p].json.items}
                      = {req[p].body.items[k].ingredientId : k \in Shortfalls(p)}
            /\ Len(inventoryTransaction) = atStart[p].inventoryTransaction
            /\ \A key \in DOMAIN atStart[p].branchInventory :
                  key \in DOMAIN branchInventory
                  /\ branchInventory[key] = atStart[p].branchInventory[key]
            /\ \A key \in DOMAIN branchInventory \ DOMAIN atStart[p].branchInventory :
                  branchInventory[key] = 0 /\ key[1] = req[p].body.targetBranchId

\* C15 witness: a Create has been answered 400 for a shortfall after it provisioned a
\* target row
ShortfallRejectsWholeWitness ==
    /\ Answered(1, "transferCreate", 400)
    /\ ~SameBranch(req[1].body)
    /\ Shortfalls(1) # {}
    /\ DOMAIN branchInventory # DOMAIN atStart[1].branchInventory

\* C16: the three writes of a waste Record are one unit: once the request is over,
\* failed or not, the ledger decrement, the WasteLog row and the WASTE row are all
\* there or none is
WasteAllOrNothing ==
    \A p \in Procs :
        (req[p].pc = "done" /\ req[p].op = "waste") =>
            LET decremented == branchInventory # atStart[p].branchInventory
                logged == Len(wasteLog) > atStart[p].wasteLog
                audited == Len(inventoryTransaction) > atStart[p].inventoryTransaction
            IN (decremented <=> logged) /\ (logged <=> audited)

\* C18: no BranchInventory row has a negative currentStock
StockNeverNegative ==
    \A key \in DOMAIN branchInventory : branchInventory[key] >= 0

\* the row the ledger write of a request returned: the currentStock right after it
WrittenStock(r) ==
    IF r.op = "waste" THEN r.updatedInventory.currentStock ELSE r.inventory.currentStock

\* C17: every InventoryTransaction row, under any interleaving of requests on one
\* ledger row, has stockAfter = stockBefore + quantityChange, and its stockAfter is
\* the currentStock the ledger held right after the write the row records
TransactionRecordsWrite ==
    [][\A p \in Procs :
          ( /\ req'[p] # req[p]
            /\ Len(inventoryTransaction') = Len(inventoryTransaction) + 1 ) =>
              LET row == inventoryTransaction'[Len(inventoryTransaction')]
              IN /\ row.stockAfter = row.stockBefore + row.quantityChange
                 /\ row.stockAfter = WrittenStock(req[p])]_vars

\* C19: of two Creates with one orderNumber (or one transferNumber) exactly one stores
\* its record, and the one that stores nothing is answered 409, never 500
DuplicateCreateConflicts ==
    /\ \A n \in OrderNumbers : Cardinality(OrderByNumber(n)) <= 1
    /\ \A n \in TransferNumbers : Cardinality(TransferByNumber(n)) <= 1
    /\ \A p \in Procs :
          /\ ( /\ req[p].pc = "done" /\ req[p].op = "poCreate"
               /\ req[p].t \notin DOMAIN purchaseOrder
               /\ OrderByNumber(req[p].body.orderNumber) # {} ) => req[p].status = 409
          /\ ( /\ req[p].pc = "done" /\ req[p].op = "transferCreate"
               /\ req[p].t \notin DOMAIN inventoryTransfer
               /\ TransferByNumber(req[p].body.transferNumber) # {} ) => req[p].status # 500

\* the sum over the items of a Create body of quantity * unitPrice
OrderedValue(items) ==
    SumOver([i \in 1..Len(items) |-> items[i].quantity * items[i].unitPrice], 1..Len(items))

\* C20: a purchase-order Create with a fresh orderNumber stores an order with status
\* PENDING, its items with receivedQty = 0 and totalAmount = the sum of quantity *
\* unitPrice; a Create with a known orderNumber is answered 409 and stores nothing
CreatePersistsPending ==
    [][\A p \in Procs :
          /\ ( /\ Accepts(p, "poCreate")
               /\ OrderByNumber(req'[p].body.orderNumber) # {} ) =>
                 req'[p].pc = "done" /\ req'[p].status = 409 /\ UNCHANGED db
          /\ ( /\ Accepts(p, "poCreate")
               /\ OrderByNumber(req'[p].body.orderNumber) = {} ) =>
                 req'[p].pc = "po_create"
          /\ (req[p].pc = "po_create" /\ req'[p] # req[p] /\ ~Fails(p)) =>
                 LET items == req[p].body.items
                     id == req[p].t
                 IN /\ req'[p].status = 201
                    /\ id \notin DOMAIN purchaseOrder
                    /\ DOMAIN purchaseOrder' = DOMAIN purchaseOrder \cup {id}
                    /\ purchaseOrder'[id].orderNumber = req[p].body.orderNumber
                    /\ purchaseOrder'[id].branchId = req[p].body.branchId
                    /\ purchaseOrder'[id].status = "PENDING"
                    /\ purchaseOrder'[id].totalAmount = OrderedValue(items)
                    /\ Len(purchaseOrder'[id].items) = Len(items)
                    /\ \A i \in 1..Len(items) :
                          /\ purchaseOrder'[id].items[i].receivedQty = 0
                          /\ purchaseOrder'[id].items[i].ingredientId = items[i].ingredientId
                          /\ purchaseOrder'[id].items[i].quantity = items[i].quantity
                          /\ purchaseOrder'[id].items[i].unitPrice = items[i].unitPrice]_vars

\* C20 witness: a Create of a two-item order has stored it, and a second Create with
\* its orderNumber has been answered 409
CreatePersistsPendingWitness ==
    /\ Answered(1, "poCreate", 409)
    /\ \E o \in OrderByNumber(req[1].body.orderNumber) :
          /\ Len(purchaseOrder[o].items) = 2
          /\ purchaseOrder[o].totalAmount = OrderedValue(purchaseOrder[o].items)
          /\ purchaseOrder[o].status = "PENDING"

ApprovedReceiveMovesToPartial ==
    [][\A p \in Procs :
          ( /\ req[p].pc = "rcv_status" /\ req'[p].pc = "done" /\ req'[p].status = 200
            /\ req[p].purchaseOrder.status = "APPROVED"
            /\ req[p].someReceived
            /\ \E i \in 1..Len(purchaseOrder'[req[p].body.id].items) :
                   purchaseOrder'[req[p].body.id].items[i].receivedQty
                       < purchaseOrder'[req[p].body.id].items[i].quantity ) =>
              purchaseOrder'[req[p].body.id].status = "PARTIAL"]_vars

\* C23: a Receive call that receives no positive quantity (an empty list, only unknown
\* itemIds, only receivedQty = 0) leaves the order's status as it was
EmptyReceiveKeepsStatus ==
    [][\A p \in Procs :
          ( /\ req[p].pc = "rcv_status" /\ req'[p].pc = "done" /\ req'[p].status = 200
            /\ ~req[p].someReceived ) =>
              purchaseOrder'[req[p].body.id].status = purchaseOrder[req[p].body.id].status]_vars

\* the entries of a Receive body without those that name no item of the order
KnownEntries(order, items) == SelectSeq(items, LAMBDA e : KnownItem(order, e))

\* C24: entries whose itemId is not an item of the order are skipped and the call
\* succeeds; what the call does to the ledger, the log, receivedQty and the status is
\* what the same call does with those entries removed: the n-th entry left credits its
\* row and appends the n-th RESTOCK row, an item's receivedQty moves by the last entry
\* left for it, and the status follows from the entries left alone
UnknownEntriesSkipped ==
    [][\A p \in Procs :
          ( /\ req[p].pc = "rcv_status" /\ req'[p].pc = "done" /\ req'[p].status = 200
            /\ KnownEntries(req[p].purchaseOrder, req[p].body.items) # req[p].body.items ) =>
              LET order == req[p].purchaseOrder
                  id == req[p].body.id
                  kept == KnownEntries(order, req[p].body.items)
                  N == 1..Len(kept)
                  before == atStart[p]
                  keyOf(n) == <<order.branchId, order.items[kept[n].itemId].ingredientId>>
                  forItem(i) == {n \in N : kept[n].itemId = i}
                  last(i) == CHOOSE n \in forItem(i) : \A m \in forItem(i) : m <= n
              IN /\ \A key \in Rows :
                      LET S == {n \in N : keyOf(n) = key}
                      IN /\ Stock(branchInventory', key)
                                = Stock(before.branchInventory, key)
                                      + SumOver([n \in S |-> kept[n].receivedQty], S)
                         /\ key \in DOMAIN branchInventory' <=>
                                key \in DOMAIN before.branchInventory \/ S # {}
                 /\ Len(inventoryTransaction') = before.inventoryTransaction + Len(kept)
                 /\ \A n \in N :
                      LET row == inventoryTransaction'[before.inventoryTransaction + n]
                      IN /\ <<row.branchId, row.ingredientId>> = keyOf(n)
                         /\ row.transactionType = "RESTOCK"
                         /\ row.quantityChange = kept[n].receivedQty
                 /\ \A i \in 1..Len(order.items) :
                      purchaseOrder'[id].items[i].receivedQty =
                          IF forItem(i) = {} THEN order.items[i].receivedQty
                          ELSE ReceivedQtyWrite(kept[last(i)], order.items[i])
                 /\ purchaseOrder'[id].status =
                      ReceiveStatus(order.status,
                          \A n \in N : ~ItemShort(kept[n], order.items[kept[n].itemId]),
                          \E n \in N : kept[n].receivedQty > 0)]_vars

\* C24 witness: a Receive call whose first entry names no item of the order and whose
\* second entry names one has been answered 200 and has written one RESTOCK row
UnknownEntriesSkippedWitness ==
    /\ Answered(1, "receive", 200)
    /\ Len(req[1].body.items) = 2
    /\ ~KnownItem(purchaseOrder[req[1].body.id], req[1].body.items[1])
    /\ KnownItem(purchaseOrder[req[1].body.id], req[1].body.items[2])
    /\ Len(inventoryTransaction) = atStart[1].inventoryTransaction + 1
    /\ purchaseOrder[req[1].body.id].items[1].receivedQty > 0

\* C25: a transfer's stored status is COMPLETED only if all item moves of the
\* completion were applied: after a status = COMPLETED update whose item loop failed
\* partway (fewer than two ADJUSTMENT rows per item written), the stored status is
\* not COMPLETED
CompletedOnlyAfterAllMoves ==
    \A p \in Procs :
        ( /\ req[p].pc = "done" /\ req[p].op = "transferUpdate"
          /\ req[p].body.status = "COMPLETED"
          /\ req[p].body.id \in DOMAIN inventoryTransfer
          /\ Len(inventoryTransaction) - atStart[p].inventoryTransaction
                 < 2 * Len(inventoryTransfer[req[p].body.id].items) ) =>
            inventoryTransfer[req[p].body.id].status # "COMPLETED"

\* C26: a successful completion conserves stock: for every ingredient the source
\* row has lost and the target row has gained exactly the quantities of the transfer's
\* items, so their sum is what it was, and each item has written two ADJUSTMENT rows,
\* -quantity on the source and +quantity on the target, that sum to zero
CompletionConservesStock ==
    \A p \in Procs :
        (Answered(p, "transferUpdate", 200) /\ req[p].body.status = "COMPLETED") =>
            LET transfer == inventoryTransfer[req[p].body.id]
                before == atStart[p]
                N == 1..Len(transfer.items)
                moved(i) == LET S == {n \in N : transfer.items[n].ingredientId = i}
                            IN SumOver([n \in S |-> transfer.items[n].quantity], S)
                source(i) == <<transfer.sourceBranchId, i>>
                target(i) == <<transfer.targetBranchId, i>>
            IN /\ \A i \in Ingredients :
                    /\ Stock(branchInventory, source(i))
                           = Stock(before.branchInventory, source(i)) - moved(i)
                    /\ Stock(branchInventory, target(i))
                           = Stock(before.branchInventory, target(i)) + moved(i)
                    /\ Stock(branchInventory, source(i)) + Stock(branchInventory, target(i))
                           = Stock(before.branchInventory, source(i))
                                 + Stock(before.branchInventory, target(i))
               /\ \A key \in Rows :
                    (\A i \in Ingredients : key # source(i) /\ key # target(i)) =>
                        Stock(branchInventory, key) = Stock(before.branchInventory, key)
               /\ Len(inventoryTransaction) = before.inventoryTransaction + 2 * Len(transfer.items)
               /\ \A n \in N :
                    LET out == inventoryTransaction[before.inventoryTransaction + 2 * n - 1]
                        in == inventoryTransaction[before.inventoryTransaction + 2 * n]
                        item == transfer.items[n]
                    IN /\ <<out.branchId, out.ingredientId>> = source(item.ingredientId)
                       /\ <<in.branchId, in.ingredientId>> = target(item.ingredientId)
                       /\ out.transactionType = "ADJUSTMENT" /\ in.transactionType = "ADJUSTMENT"
                       /\ out.quantityChange = -item.quantity
                       /\ in.quantityChange = item.quantity
                       /\ out.quantityChange + in.quantityChange = 0

\* C26 witness: a completion of a transfer of more than one unit of an ingredient has
\* been answered 200, and the target row holds more than it did
CompletionConservesStockWitness ==
    /\ Answered(1, "transferUpdate", 200)
    /\ req[1].body.status = "COMPLETED"
    /\ \E n \in 1..Len(inventoryTransfer[req[1].body.id].items) :
         LET item == inventoryTransfer[req[1].body.id].items[n]
         IN /\ item.quantity > 1
            /\ branchInventory[item.targetInventoryId]
                   > Stock(atStart[1].branchInventory, item.targetInventoryId)
    /\ Len(inventoryTransaction) > atStart[1].inventoryTransaction

\* C27: no step of any interleaving of concurrent Receive calls lowers an item's
\* receivedQty
ReceivedQtyNeverDecreases ==
    [][\A o \in DOMAIN purchaseOrder \cap DOMAIN purchaseOrder' :
          \A i \in 1..Len(purchaseOrder[o].items) :
              purchaseOrder'[o].items[i].receivedQty >= purchaseOrder[o].items[i].receivedQty]_vars

\* the RESTOCK rows written for an ingredient of an order
RestockRows(order, ingredientId) ==
    {j \in 1..Len(inventoryTransaction) :
        /\ inventoryTransaction[j].transactionType = "RESTOCK"
        /\ inventoryTransaction[j].reason = <<"Purchase order", order.orderNumber>>
        /\ inventoryTransaction[j].ingredientId = ingredientId}

\* C28: the quantityChange of the RESTOCK rows written for an item of an order sums
\* to the item's receivedQty; stated of the states in which no request is in flight,
\* where every Receive call has written both
RestockRowsMatchReceivedQty ==
    (\A p \in Procs : ~InFlight(p)) =>
        \A o \in DOMAIN purchaseOrder : \A i \in Ingredients :
            LET order == purchaseOrder[o]
                S == {n \in 1..Len(order.items) : order.items[n].ingredientId = i}
            IN LoggedChange(RestockRows(order, i))
                   = SumOver([n \in S |-> order.items[n].receivedQty], S)

\* C29: an order whose status is RECEIVED has every item's receivedQty at or above
\* its ordered quantity, whatever updates and Receive calls led to it
ReceivedOrderFullyReceived ==
    \A o \in DOMAIN purchaseOrder :
        purchaseOrder[o].status = "RECEIVED" =>
            \A i \in 1..Len(purchaseOrder[o].items) :
                purchaseOrder[o].items[i].receivedQty >= purchaseOrder[o].items[i].quantity

\* C30: two waste Records accepted on the same stock of one row, each for no more
\* than that stock and together for more, are never both answered 201
ConcurrentWasteNotBothAccepted ==
    \A p, q \in Procs :
        ( /\ p # q
          /\ Answered(p, "waste", 201) /\ Answered(q, "waste", 201)
          /\ WasteKey(req[p]) = WasteKey(req[q])
          /\ atStart[p] = atStart[q] ) =>
            LET stock == Stock(atStart[p].branchInventory, WasteKey(req[p]))
            IN ~( /\ req[p].body.quantity <= stock
                  /\ req[q].body.quantity <= stock
                  /\ req[p].body.quantity + req[q].body.quantity > stock )

====
